---- MODULE Spec2Model ----
(***************************************************************************)
(* Big Rocks: the daily prompt state machine of src/App.tsx together with  *)
(* the localStorage persistence of src/utils/storage.ts.                   *)
(*                                                                         *)
(* The React component state is the in-memory state; `store` is            *)
(* localStorage.  Click/submit/change handlers are discrete events: React  *)
(* re-renders and runs the persistence effect (App.tsx:109-111) before the *)
(* next event, so their save is part of the handler's action.  The mount   *)
(* effects and the visibilitychange listener queue their updates outside a *)
(* discrete event; the persistence effect of the following render is a     *)
(* separate step (PersistEffect), and only events that do not read the     *)
(* rendered state (visibilitychange, the clock) can come before it.        *)
(*                                                                         *)
(* Left out: the view / menu / text-field UI state, Activity.createdAt and *)
(* ActivityLog.id (never read by the logic).                               *)
(***************************************************************************)
EXTENDS Integers, Sequences, FiniteSets, TLC

\* ---------------------------------------------------------------- bounds
MaxNow   == 1      \* the clock runs over the days 0..MaxNow
MaxIds   == 2      \* number of activities ever created (crypto.randomUUID)
MaxLogs  == 1      \* number of log entries ever written
MaxInput == 1      \* numbers typed into the settings fields:
                   \*   -MaxInput..MaxInput, or a non-numeric text
MaxStatLogs == 40  \* StatsView: number of answered entries in its log list
MaxStart == 2      \* StatsView: the range starts at a time in 0..MaxStart

\* ------------------------------------------------------------- constants
SUMMARY == -1      \* the sentinel activity id 'SUMMARY'
NoId    == 0       \* lastActivityId = null
NoDate  == -1      \* lastGeneratedDate = ''
Texts   == {"x"}

Null == [id |-> NoId, text |-> ""]                    \* currentRock = null

VARIABLES
    activities,        \* Activity[]            App.tsx:12
    logs,              \* ActivityLog[]         App.tsx:13
    settings,          \* AppSettings           App.tsx:14
    currentRock,       \* Activity | null       App.tsx:20
    isSummaryPending,  \* boolean               App.tsx:21
    lastActivityId,    \* string | null         App.tsx:22
    hasSeenOnboarding, \* boolean               App.tsx:23
    store,             \* localStorage: key -> <<>> (absent) or <<value>>
    now,               \* Date.now()
    running,           \* the component is mounted
    pending,           \* a render whose persistence effect has not run yet
    nextId,            \* number of ids handed out by crypto.randomUUID
    event,             \* history: the step taken last
    answered,          \* history: Responds since the last rollover / midnight
    rolled,            \* history: the day of the last quota regeneration
    faults,            \* the environment may cut a save short, stop the process
                       \*   at any moment and damage a stored value
    crashed,           \* the process died inside the save of the last step
    prompts,           \* history: rocks selected so far (kept under faults)
    corrupt,           \* the keys whose stored text JSON.parse rejects
    startDate,         \* StatsView: start of the selected range, <<>> = null
    stats,             \* StatsView: the memoized {completed, total, percentage}
    logRoom,           \* the length up to which the log list is followed
    summaryShown       \* history: a summary was raised since the last rollover

mem  == <<activities, logs, settings, currentRock, isSummaryPending,
          lastActivityId, hasSeenOnboarding>>
vars == <<activities, logs, settings, currentRock, isSummaryPending,
          lastActivityId, hasSeenOnboarding, store, now, running, pending,
          nextId, event, answered, rolled, faults, crashed, prompts, corrupt,
          startDate, stats, logRoom, summaryShown>>
\* the statistics view; it is followed in SpecStats only
view == <<startDate, stats>>

\* ------------------------------------------------------------- helpers
\* new Date(t).toISOString().split('T')[0]: the calendar-day key of a time.
\* The clock of the model counts calendar days: the logic reads a time only
\* through its day key.
DayKey(t) == t

Today == DayKey(now)

Min2(a, b) == IF a <= b THEN a ELSE b
Max2(a, b) == IF a >= b THEN a ELSE b

RECURSIVE Filter(_, _)
\* Array.prototype.filter, keeping the elements whose id is not `id`
Filter(seq, id) ==
    IF seq = <<>> THEN <<>>
    ELSE IF Head(seq).id = id THEN Filter(Tail(seq), id)
         ELSE <<Head(seq)>> \o Filter(Tail(seq), id)

\* the useState initial values, App.tsx:12-23
InitialSettings == [minNotifications |-> 1, maxNotifications |-> 5,
                    notificationsToday |-> 3, lastGeneratedDate |-> NoDate]

\* ------------------------------------------------------------- storage.ts
EmptyStore == [ACTIVITIES |-> <<>>, LOGS |-> <<>>, SETTINGS |-> <<>>,
               STATE_CURRENT |-> <<>>, STATE_LAST_ID |-> <<>>,
               STATE_SUMMARY |-> <<>>, HAS_SEEN_ONBOARDING |-> <<>>]

\* localStorage.getItem(key) || default, parsed
GetOr(item, default) == IF item = <<>> THEN default ELSE item[1]

\* defaults whose day key is left empty
defaultSettingsUndated(today) ==
    [minNotifications |-> 3, maxNotifications |-> 8,
     notificationsToday |-> 5, lastGeneratedDate |-> NoDate]

defaultSettings(today) ==
    [minNotifications |-> 3, maxNotifications |-> 8,
     notificationsToday |-> 5, lastGeneratedDate |-> today]

\* a load that forgets the rock shown last
loadInitialDataNoLastId(st, today) ==
    [activities        |-> GetOr(st.ACTIVITIES, <<>>),
     logs              |-> GetOr(st.LOGS, <<>>),
     settings          |-> GetOr(st.SETTINGS, defaultSettings(today)),
     currentRock       |-> GetOr(st.STATE_CURRENT, Null),
     lastActivityId    |-> NoId,
     isSummaryPending  |-> GetOr(st.STATE_SUMMARY, FALSE),
     hasSeenOnboarding |-> GetOr(st.HAS_SEEN_ONBOARDING, FALSE)]

loadInitialData(st, today) ==
    [activities        |-> GetOr(st.ACTIVITIES, <<>>),
     logs              |-> GetOr(st.LOGS, <<>>),
     settings          |-> GetOr(st.SETTINGS, defaultSettings(today)),
     currentRock       |-> GetOr(st.STATE_CURRENT, Null),
     lastActivityId    |-> GetOr(st.STATE_LAST_ID, NoId),
     isSummaryPending  |-> GetOr(st.STATE_SUMMARY, FALSE),
     hasSeenOnboarding |-> GetOr(st.HAS_SEEN_ONBOARDING, FALSE)]

saveData(a, l, s, rock, lastId, summary, seen) ==
    [ACTIVITIES          |-> <<a>>,
     LOGS                |-> <<l>>,
     SETTINGS            |-> <<s>>,
     STATE_CURRENT       |-> <<rock>>,
     STATE_LAST_ID       |-> IF lastId # NoId THEN <<lastId>> ELSE <<>>,
     STATE_SUMMARY       |-> <<summary>>,
     HAS_SEEN_ONBOARDING |-> <<seen>>]

\* the keys in the order of saveData's seven writes, storage.ts:42-49
KeyOrder == <<"ACTIVITIES", "LOGS", "SETTINGS", "STATE_CURRENT",
              "STATE_LAST_ID", "STATE_SUMMARY", "HAS_SEEN_ONBOARDING">>

\* the store after the first k writes of a saveData whose result would be `new`
Partial(old, new, k) ==
    [key \in DOMAIN old |->
        IF \E i \in 1 .. k : KeyOrder[i] = key THEN new[key] ELSE old[key]]

\* How many of its writes a saveData completes.  Nothing in saveData or its
\* callers makes the seven setItem calls one unit: the process can die (or a
\* setItem can throw, e.g. on a full quota) after any of them.
Cut == IF faults THEN 0 .. Len(KeyOrder) ELSE {Len(KeyOrder)}

\* one run of saveData towards `target`
Write(target) ==
    \E k \in Cut :
        /\ store' = IF k = Len(KeyOrder) THEN target
                    ELSE Partial(store, target, k)
        /\ crashed' = (k < Len(KeyOrder))

\* the keys loadInitialData passes through JSON.parse, storage.ts:14-28
\* (bigrocks_last_id is read as it is)
ParsedKeys == {"ACTIVITIES", "LOGS", "SETTINGS", "STATE_CURRENT",
               "STATE_SUMMARY", "HAS_SEEN_ONBOARDING"}

\* ---------------------------------------------------------- quota, rollover
\* a draw that can also reach range + 1
RandomAddInclusive(range) ==
    IF range + 1 > 0 THEN 0 .. range + 1
    ELSE (range + 1) .. 0

\* Math.floor(Math.random() * (range + 1)), Math.random() in [0, 1)
RandomAdd(range) ==
    IF range + 1 > 0 THEN 0 .. range
    ELSE (range + 1) .. 0

NeedsRollover(s, today) == s.lastGeneratedDate # today

\* the newSettings of App.tsx:51-55 and 87-91
Regenerated(s, randomAdd, today) ==
    [s EXCEPT !.notificationsToday = s.minNotifications + randomAdd,
              !.lastGeneratedDate  = today]

\* a reset that clears the summary flag and forgets the pending rock
DailyResetSummaryOnly(summary, rock) ==
    [isSummaryPending |-> FALSE, currentRock |-> rock]

\* the reset of the daily state on a new day, App.tsx:58-60 and 94-95
DailyReset(summary, rock) == [isSummaryPending |-> FALSE, currentRock |-> Null]

\* --------------------------------------------------------- prompt machine
\* a guard that looks at the summary flag only
AlreadyActiveSummaryOnly(rock, summary) == summary

\* a guard that looks at the current rock only
AlreadyActiveRockOnly(rock, summary) == rock # Null

\* `currentRock || isSummaryPending`, App.tsx:132
AlreadyActive(rock, summary) == rock # Null \/ summary

\* the logs counted against today's quota, App.tsx:136-139
todaysLogs(l, todayStr) ==
    SelectSeq(l, LAMBDA e : DayKey(e.timestamp) = todayStr
                            /\ e.activityId # SUMMARY)

\* a limit test that is off by one
LimitHitStrict(count, quota) == count > quota

\* `todaysLogs.length >= settings.notificationsToday`, App.tsx:142
LimitHit(count, quota) == count >= quota

\* a pool that keeps the rock shown last
CandidatePoolAll(pool, lastId) == pool

\* the pool the rock is drawn from, App.tsx:150-155
CandidatePool(pool, lastId) ==
    IF Len(pool) > 1 /\ lastId # NoId THEN Filter(pool, lastId) ELSE pool

\* a response handler without its guard
NotPromptingNever(rock) == FALSE

\* `!currentRock`, App.tsx:164
NotPrompting(rock) == rock = Null

\* a log entry that always counts as done
NewLogDone(rock, timestamp, completed) ==
    [activityId |-> rock.id, activityText |-> rock.text,
     timestamp |-> timestamp, completed |-> TRUE]

\* the newLog of App.tsx:166-172
NewLog(rock, timestamp, completed) ==
    [activityId |-> rock.id, activityText |-> rock.text,
     timestamp |-> timestamp, completed |-> completed]

\* ------------------------------------------------------- settings inputs
\* What is typed into a number field, by what parseInt makes of it:
\* <<>> is NaN (empty or non-numeric text), <<n>> the integer n.
Inputs == {<<>>} \cup {<<n>> : n \in -MaxInput .. MaxInput}

\* `parseInt(e.target.value) || d`: NaN and 0 are falsy
OrDefault(parsed, d) ==
    IF parsed = <<>> THEN d
    ELSE IF parsed[1] = 0 THEN d ELSE parsed[1]

\* App.tsx:372-373
ClampMin(parsed, s) == Min2(OrDefault(parsed, 1), s.maxNotifications)

\* a Maximum that is stored as typed
ClampMaxUnclamped(parsed, s) == OrDefault(parsed, 2)

\* App.tsx:387-388
ClampMax(parsed, s) == Max2(OrDefault(parsed, 2), s.minNotifications)

\* ------------------------------------------------------------------ Init
Init ==
    /\ activities = <<>>
    /\ logs = <<>>
    /\ settings = InitialSettings
    /\ currentRock = Null
    /\ isSummaryPending = FALSE
    /\ lastActivityId = NoId
    /\ hasSeenOnboarding = FALSE
    /\ store = EmptyStore
    /\ now = 0
    /\ running = FALSE
    /\ pending = FALSE
    /\ nextId = 0
    /\ event = "none"
    /\ answered = 0
    /\ rolled = NoDate
    /\ faults = FALSE
    /\ crashed = FALSE
    /\ prompts = 0
    /\ corrupt = {}
    /\ startDate = <<>>
    /\ stats = [completed |-> 0, total |-> 0, percentage |-> 0]
    /\ logRoom = MaxLogs
    /\ summaryShown = FALSE

\* --------------------------------------------------------------- actions
\* Mount: first render with the useState values, then the three effects in
\* order: initialization (App.tsx:30-67) reads the store and queues the
\* loaded state; the listener is registered; the persistence effect
\* (App.tsx:109-111) saves the values of the first render.
Mount ==
    /\ ~running
    /\ corrupt \cap ParsedKeys = {}
    /\ LET data == loadInitialData(store, Today) IN
        /\ activities' = data.activities
        /\ logs' = data.logs
        /\ lastActivityId' = data.lastActivityId
        /\ hasSeenOnboarding' = data.hasSeenOnboarding
        /\ IF NeedsRollover(data.settings, Today)
           THEN /\ \E randomAdd \in RandomAdd(data.settings.maxNotifications
                                              - data.settings.minNotifications) :
                      settings' = Regenerated(data.settings, randomAdd, Today)
                /\ isSummaryPending' =
                      DailyReset(data.isSummaryPending, data.currentRock).isSummaryPending
                /\ currentRock' =
                      DailyReset(data.isSummaryPending, data.currentRock).currentRock
                /\ answered' = 0
                /\ rolled' = Today
                /\ summaryShown' = FALSE
           ELSE /\ settings' = data.settings
                /\ isSummaryPending' = data.isSummaryPending
                /\ currentRock' = data.currentRock
                /\ UNCHANGED <<answered, rolled, summaryShown>>
    /\ Write(saveData(<<>>, <<>>, InitialSettings, Null, NoId, FALSE, FALSE))
    /\ running' = TRUE
    /\ pending' = TRUE
    /\ event' = "Mount"
    /\ UNCHANGED <<now, nextId, faults, view, logRoom, prompts, corrupt>>

\* The persistence effect of the render that follows queued updates.
PersistEffect ==
    /\ running
    /\ ~crashed
    /\ pending
    /\ Write(saveData(activities, logs, settings, currentRock,
                      lastActivityId, isSummaryPending, hasSeenOnboarding))
    /\ pending' = FALSE
    /\ event' = "PersistEffect"
    /\ UNCHANGED <<mem, now, running, nextId, answered, rolled, faults,
                   view, logRoom, summaryShown, prompts,
                   corrupt>>

\* The page is closed with everything saved; the component state is gone.
Unmount ==
    /\ running
    /\ ~crashed
    /\ ~pending
    /\ activities' = <<>>
    /\ logs' = <<>>
    /\ settings' = InitialSettings
    /\ currentRock' = Null
    /\ isSummaryPending' = FALSE
    /\ lastActivityId' = NoId
    /\ hasSeenOnboarding' = FALSE
    /\ running' = FALSE
    /\ event' = "Unmount"
    /\ UNCHANGED <<store, now, pending, nextId, answered, rolled, faults,
                   view, logRoom, summaryShown,
                   crashed, prompts, corrupt>>

\* The clock advances (whether the page is open or not).
Tick ==
    /\ now < MaxNow
    /\ now' = now + 1
    /\ answered' = IF DayKey(now + 1) # DayKey(now) THEN 0 ELSE answered
    /\ event' = "Tick"
    /\ UNCHANGED <<mem, store, running, pending, nextId, rolled, faults,
                   view, logRoom, summaryShown,
                   crashed, prompts, corrupt>>

\* visibilitychange to 'visible', App.tsx:71-102
handleVisibilityChange ==
    /\ running
    /\ ~crashed
    /\ event' = "handleVisibilityChange"
    /\ UNCHANGED <<faults, view, logRoom, crashed, prompts, corrupt>>
    /\ IF store.SETTINGS # <<>> /\ NeedsRollover(store.SETTINGS[1], Today)
       THEN LET savedSettings == store.SETTINGS[1] IN
            /\ \E randomAdd \in RandomAdd(savedSettings.maxNotifications
                                          - savedSettings.minNotifications) :
                  settings' = Regenerated(savedSettings, randomAdd, Today)
            /\ isSummaryPending' =
                  DailyReset(isSummaryPending, currentRock).isSummaryPending
            /\ currentRock' = DailyReset(isSummaryPending, currentRock).currentRock
            /\ pending' = TRUE
            /\ answered' = 0
            /\ rolled' = Today
            /\ summaryShown' = FALSE
            /\ UNCHANGED <<activities, logs, lastActivityId, hasSeenOnboarding,
                           store, now, running, nextId>>
       ELSE UNCHANGED <<mem, store, now, running, pending, nextId, answered,
                        rolled, summaryShown>>

\* The persistence effect of the render caused by a discrete event.
Saved ==
    Write(saveData(activities', logs', settings', currentRock',
                   lastActivityId', isSummaryPending', hasSeenOnboarding'))

\* A handler of a discrete event runs on the rendered, saved state.
Interactive == running /\ ~pending /\ ~crashed

\* App.tsx:115-125; `text` is the trimmed field
addActivity(text) ==
    /\ Interactive
    /\ event' = "addActivity"
    /\ IF text = ""
       THEN UNCHANGED <<mem, store, crashed, nextId>>
       ELSE /\ nextId < MaxIds
            /\ nextId' = nextId + 1
            /\ activities' = Append(activities, [id |-> nextId + 1, text |-> text])
            /\ UNCHANGED <<logs, settings, currentRock, isSummaryPending,
                           lastActivityId, hasSeenOnboarding>>
            /\ Saved
    /\ UNCHANGED <<now, running, pending, answered, rolled, faults,
                   view, logRoom, summaryShown, prompts,
                   corrupt>>

\* a removal that also withdraws the rock being shown
removeActivityAndRock(id) ==
    /\ Interactive
    /\ event' = "removeActivity"
    /\ activities' = Filter(activities, id)
    /\ currentRock' = IF currentRock.id = id THEN Null ELSE currentRock
    /\ UNCHANGED <<logs, settings, isSummaryPending, lastActivityId,
                   hasSeenOnboarding>>
    /\ Saved
    /\ UNCHANGED <<now, running, pending, nextId, answered, rolled, faults,
                   view, logRoom, summaryShown,
                   prompts, corrupt>>

\* App.tsx:127-129
removeActivity(id) ==
    /\ Interactive
    /\ event' = "removeActivity"
    /\ activities' = Filter(activities, id)
    /\ UNCHANGED <<logs, settings, currentRock, isSummaryPending,
                   lastActivityId, hasSeenOnboarding>>
    /\ Saved
    /\ UNCHANGED <<now, running, pending, nextId, answered, rolled, faults,
                   view, logRoom, summaryShown,
                   prompts, corrupt>>

\* App.tsx:131-161
triggerNotification ==
    /\ Interactive
    /\ event' = "triggerNotification"
    /\ IF AlreadyActive(currentRock, isSummaryPending)
       THEN UNCHANGED <<mem, store, crashed, prompts, summaryShown>>
       ELSE IF LimitHit(Len(todaysLogs(logs, Today)), settings.notificationsToday)
       THEN /\ isSummaryPending' = TRUE
            /\ summaryShown' = TRUE
            /\ UNCHANGED <<activities, logs, settings, currentRock,
                           lastActivityId, hasSeenOnboarding, prompts>>
            /\ Saved
       ELSE IF Len(activities) = 0
       THEN UNCHANGED <<mem, store, crashed, prompts, summaryShown>>
       ELSE LET pool == CandidatePool(activities, lastActivityId) IN
            /\ \E randomIndex \in 1 .. Len(pool) :
                  currentRock' = pool[randomIndex]
            /\ prompts' = IF faults THEN Min2(prompts + 1, MaxLogs + 1)
                          ELSE prompts
            /\ UNCHANGED <<activities, logs, settings, isSummaryPending,
                           lastActivityId, hasSeenOnboarding, summaryShown>>
            /\ Saved
    /\ UNCHANGED <<now, running, pending, nextId, answered, rolled, faults,
                   view, logRoom, corrupt>>

\* App.tsx:163-177
handleRockResponse(completed) ==
    /\ Interactive
    /\ event' = "handleRockResponse"
    /\ IF NotPrompting(currentRock)
       THEN UNCHANGED <<mem, store, crashed, answered>>
       ELSE /\ Len(logs) < logRoom
            /\ logs' = Append(logs, NewLog(currentRock, now, completed))
            /\ lastActivityId' = currentRock.id
            /\ currentRock' = Null
            /\ answered' = Min2(answered + 1, MaxLogs + 1)
            /\ UNCHANGED <<activities, settings, isSummaryPending,
                           hasSeenOnboarding>>
            /\ Saved
    /\ UNCHANGED <<now, running, pending, nextId, rolled, faults,
                   view, logRoom, summaryShown, prompts,
                   corrupt>>

\* a dismissal that records the summary as a log entry
handleSummaryDismissLogged ==
    /\ Interactive
    /\ event' = "handleSummaryDismiss"
    /\ isSummaryPending' = FALSE
    /\ logs' = Append(logs, [activityId |-> SUMMARY, activityText |-> "Summary",
                             timestamp |-> now, completed |-> TRUE])
    /\ UNCHANGED <<activities, settings, currentRock, lastActivityId,
                   hasSeenOnboarding>>
    /\ Saved
    /\ UNCHANGED <<now, running, pending, nextId, answered, rolled, faults,
                   view, logRoom, summaryShown,
                   prompts, corrupt>>

\* App.tsx:179-181; `event` tells the dismissal of a pending summary from a
\* call that finds none
handleSummaryDismiss ==
    /\ Interactive
    /\ event' = IF isSummaryPending THEN "handleSummaryDismiss"
                ELSE "handleSummaryDismiss (none pending)"
    /\ isSummaryPending' = FALSE
    /\ UNCHANGED <<activities, logs, settings, currentRock, lastActivityId,
                   hasSeenOnboarding>>
    /\ Saved
    /\ UNCHANGED <<now, running, pending, nextId, answered, rolled, faults,
                   view, logRoom, summaryShown,
                   prompts, corrupt>>

\* App.tsx:183-186
dismissOnboarding ==
    /\ Interactive
    /\ event' = "dismissOnboarding"
    /\ hasSeenOnboarding' = TRUE
    /\ UNCHANGED <<activities, logs, settings, currentRock, isSummaryPending,
                   lastActivityId>>
    /\ Saved
    /\ UNCHANGED <<now, running, pending, nextId, answered, rolled, faults,
                   view, logRoom, summaryShown,
                   prompts, corrupt>>

\* the Minimum field's onChange, App.tsx:371-374
onChangeMin(parsed) ==
    /\ Interactive
    /\ event' = "onChangeMin"
    /\ settings' = [settings EXCEPT !.minNotifications = ClampMin(parsed, settings)]
    /\ UNCHANGED <<activities, logs, currentRock, isSummaryPending,
                   lastActivityId, hasSeenOnboarding>>
    /\ Saved
    /\ UNCHANGED <<now, running, pending, nextId, answered, rolled, faults,
                   view, logRoom, summaryShown,
                   prompts, corrupt>>

\* the Maximum field's onChange, App.tsx:386-389
onChangeMax(parsed) ==
    /\ Interactive
    /\ event' = "onChangeMax"
    /\ settings' = [settings EXCEPT !.maxNotifications = ClampMax(parsed, settings)]
    /\ UNCHANGED <<activities, logs, currentRock, isSummaryPending,
                   lastActivityId, hasSeenOnboarding>>
    /\ Saved
    /\ UNCHANGED <<now, running, pending, nextId, answered, rolled, faults,
                   view, logRoom, summaryShown,
                   prompts, corrupt>>

Next ==
    \/ Mount
    \/ PersistEffect
    \/ Unmount
    \/ Tick
    \/ handleVisibilityChange
    \/ \E text \in Texts \cup {""} : addActivity(text)
    \/ \E i \in 1 .. Len(activities) : removeActivity(activities[i].id)
    \/ triggerNotification
    \/ \E completed \in BOOLEAN : handleRockResponse(completed)
    \/ handleSummaryDismiss
    \/ dismissOnboarding
    \/ \E parsed \in Inputs : onChangeMin(parsed)
    \/ \E parsed \in Inputs : onChangeMax(parsed)

Spec == Init /\ [][Next]_vars

\* ----------------------------------------------------- the faulty environment
\* The process stops at an arbitrary moment (tab killed, power loss), also
\* between the mount effects and the next render, or after a save was cut
\* short.  The component state is gone; localStorage stays as it is.
Kill ==
    /\ faults
    /\ running
    /\ activities' = <<>>
    /\ logs' = <<>>
    /\ settings' = InitialSettings
    /\ currentRock' = Null
    /\ isSummaryPending' = FALSE
    /\ lastActivityId' = NoId
    /\ hasSeenOnboarding' = FALSE
    /\ running' = FALSE
    /\ pending' = FALSE
    /\ crashed' = FALSE
    /\ event' = "Kill"
    /\ UNCHANGED <<store, now, nextId, answered, rolled, faults, view, logRoom, summaryShown, prompts, corrupt>>

\* While the page is closed, the text under one parsed key is damaged.
Corrupt(key) ==
    /\ faults
    /\ ~running
    /\ corrupt = {}
    /\ corrupt' = {key}
    /\ event' = "Corrupt"
    /\ UNCHANGED <<mem, store, now, running, pending, nextId, answered, rolled,
                   faults, view, logRoom, summaryShown, crashed, prompts>>

\* Mount on a store with a damaged key: JSON.parse throws inside
\* loadInitialData (storage.ts:14-28 has no try/catch, nor has the effect at
\* App.tsx:30-31).  No setter has run, the listener and the persistence effect
\* of the component are not reached, and React unmounts the tree: the page
\* stays blank and takes no event.
MountThrows ==
    /\ ~running
    /\ corrupt \cap ParsedKeys # {}
    /\ event' = "MountThrows"
    /\ UNCHANGED <<mem, store, now, running, pending, nextId, answered, rolled,
                   faults, view, logRoom, summaryShown, crashed, prompts, corrupt>>

InitFaults ==
    /\ activities = <<>>
    /\ logs = <<>>
    /\ settings = InitialSettings
    /\ currentRock = Null
    /\ isSummaryPending = FALSE
    /\ lastActivityId = NoId
    /\ hasSeenOnboarding = FALSE
    /\ store = EmptyStore
    /\ now = 0
    /\ running = FALSE
    /\ pending = FALSE
    /\ nextId = 0
    /\ event = "none"
    /\ answered = 0
    /\ rolled = NoDate
    /\ faults = TRUE
    /\ crashed = FALSE
    /\ prompts = 0
    /\ corrupt = {}
    /\ startDate = <<>>
    /\ stats = [completed |-> 0, total |-> 0, percentage |-> 0]
    /\ logRoom = MaxLogs
    /\ summaryShown = FALSE

\* The faults are explored around one prompt cycle: start-up, adding a rock,
\* trigger, response, and the passing of midnight.
NextFaults ==
    \/ Mount
    \/ PersistEffect
    \/ Tick
    \/ \E text \in Texts : addActivity(text)
    \/ triggerNotification
    \/ \E completed \in BOOLEAN : handleRockResponse(completed)
    \/ Kill
    \/ \E key \in ParsedKeys : Corrupt(key)
    \/ MountThrows

SpecFaults == InitFaults /\ [][NextFaults]_vars

\* ------------------------------------------------- more answers in one day
\* The quota against the answers of a day: the log list is followed one
\* entry further, with the handlers that prompt, answer, pass midnight, roll
\* over and set the Minimum.
InitDays ==
    /\ activities = <<>>
    /\ logs = <<>>
    /\ settings = InitialSettings
    /\ currentRock = Null
    /\ isSummaryPending = FALSE
    /\ lastActivityId = NoId
    /\ hasSeenOnboarding = FALSE
    /\ store = EmptyStore
    /\ now = 0
    /\ running = FALSE
    /\ pending = FALSE
    /\ nextId = 0
    /\ event = "none"
    /\ answered = 0
    /\ rolled = NoDate
    /\ faults = FALSE
    /\ crashed = FALSE
    /\ prompts = 0
    /\ corrupt = {}
    /\ startDate = <<>>
    /\ stats = [completed |-> 0, total |-> 0, percentage |-> 0]
    /\ logRoom = MaxLogs + 1
    /\ summaryShown = FALSE

NextDays ==
    \/ Mount
    \/ PersistEffect
    \/ Unmount
    \/ Tick
    \/ handleVisibilityChange
    \/ \E text \in Texts : addActivity(text)
    \/ triggerNotification
    \/ \E completed \in BOOLEAN : handleRockResponse(completed)
    \/ handleSummaryDismiss
    \/ \E parsed \in Inputs : onChangeMin(parsed)

SpecDays == InitDays /\ [][NextDays]_vars

\* ---------------------------------------------------------- StatsView.tsx
\* JavaScript numbers are IEEE 754 doubles.  A positive double is kept as
\* [m1, m2, m3, k]: its value is M / 2^k, where the significand
\* M = m1 * Limb^2 + m2 * Limb + m3 has Precision bits (2^52 <= M < 2^53)
\* and m2, m3 < Limb.
Precision == 53
LimbBits  == 18

RECURSIVE Pow2(_)
Pow2(e) == IF e = 0 THEN 1 ELSE 2 * Pow2(e - 1)

Limb == Pow2(LimbBits)

RECURSIVE Lead(_, _)
\* the least e with c * 2^e >= t
Lead(c, t) == IF c >= t THEN 0 ELSE 1 + Lead(2 * c, t)

\* the limbs of A \div 2^s for A = a1 * Limb^2 + a2 * Limb + a3, s < LimbBits
ShiftRight(a1, a2, a3, s) ==
    [m1 |-> a1 \div Pow2(s),
     m2 |-> (a2 \div Pow2(s)) + ((a1 % Pow2(s)) * Pow2(LimbBits - s)),
     m3 |-> (a3 \div Pow2(s)) + ((a2 % Pow2(s)) * Pow2(LimbBits - s))]

\* the double with significand M + 1
Bump(x) ==
    LET l3 == x.m3 + 1
        l2 == x.m2 + (l3 \div Limb)
        l1 == x.m1 + (l2 \div Limb)
    IN  IF l1 = Pow2(Precision - 2 * LimbBits)
        THEN [m1 |-> l1 \div 2, m2 |-> 0, m3 |-> 0, k |-> x.k - 1]
        ELSE [m1 |-> l1, m2 |-> l2 % Limb, m3 |-> l3 % Limb, k |-> x.k]

\* Round to nearest, ties to even: x holds the leading Precision bits of the
\* exact value, `guard` is the bit after them and `sticky` tells of a
\* non-zero rest after the guard bit.
RoundEven(x, guard, sticky) ==
    IF guard = 1 /\ (sticky \/ (x.m3 % 2) = 1) THEN Bump(x) ELSE x

\* the double `completed / total`, for 0 < c <= t: long division, one limb
\* at a time, of the 54 bits after the leading 1 of c * 2^e / t
Quotient(c, t) ==
    LET e  == Lead(c, t)
        r0 == c * Pow2(e) - t
        f1 == (r0 * Limb) \div t
        r1 == (r0 * Limb) % t
        f2 == (r1 * Limb) \div t
        r2 == (r1 * Limb) % t
        f3 == (r2 * Limb) \div t
        r3 == (r2 * Limb) % t
        m  == ShiftRight(Limb + f1, f2, f3, 2)
    IN  RoundEven([m1 |-> m.m1, m2 |-> m.m2, m3 |-> m.m3,
                   k |-> e + Precision - 1],
                  (f3 \div 2) % 2,
                  (f3 % 2) = 1 \/ r3 # 0)

\* the double `x * 100`: the exact product has 6 or 7 bits too many
Times100(x) ==
    LET p3 == x.m3 * 100
        p2 == (x.m2 * 100) + (p3 \div Limb)
        a1 == (x.m1 * 100) + (p2 \div Limb)
        a2 == p2 % Limb
        a3 == p3 % Limb
        s  == IF a1 < Pow2(Precision + 6 - 2 * LimbBits) THEN 6 ELSE 7
        m  == ShiftRight(a1, a2, a3, s)
    IN  RoundEven([m1 |-> m.m1, m2 |-> m.m2, m3 |-> m.m3, k |-> x.k - s],
                  (a3 \div Pow2(s - 1)) % 2,
                  (a3 % Pow2(s - 1)) # 0)

\* Math.round of a positive double whose binary point lies in the first
\* limb: the nearest integer, a fraction of one half or more goes up
MathRound(x) ==
    LET d == x.k - 2 * LimbBits IN
    (x.m1 \div Pow2(d)) + ((x.m1 \div Pow2(d - 1)) % 2)

\* a percentage that is computed in exact arithmetic
PercentageExact(completed, total) ==
    IF total = 0 THEN 0 ELSE ((200 * completed) + total) \div (2 * total)

\* `total === 0 ? 0 : Math.round((completed / total) * 100)`, StatsView.tsx:49
Percentage(completed, total) ==
    IF total = 0 THEN 0
    ELSE IF completed = 0 THEN 0
    ELSE MathRound(Times100(Quotient(completed, total)))

\* the test of the filter, StatsView.tsx:41-45; a missing isSummary is FALSE
Counted(log, start) ==
    IF log.isSummary \/ log.activityId = SUMMARY THEN FALSE
    ELSE IF start = <<>> THEN TRUE
    ELSE log.timestamp > start[1]

\* the memoized value, StatsView.tsx:40-51
Stats(l, start) ==
    LET filteredLogs == SelectSeq(l, LAMBDA log : Counted(log, start))
        completed    == Len(SelectSeq(filteredLogs, LAMBDA log : log.completed))
        total        == Len(filteredLogs)
    IN  [completed |-> completed, total |-> total,
         percentage |-> Percentage(completed, total)]

RECURSIVE Repeat(_, _)
Repeat(e, n) == IF n = 0 THEN <<>> ELSE <<e>> \o Repeat(e, n - 1)

StatLog(activityId, timestamp, completed, isSummary) ==
    [activityId |-> activityId, activityText |-> "x", timestamp |-> timestamp,
     completed |-> completed, isSummary |-> isSummary]

\* The log lists handed to StatsView: `done` completed and `missed` other
\* answers at the latest time, followed by some of: an older completed
\* answer, a summary entry by its id, a summary entry by its flag.
StatInputs ==
    LET old     == StatLog(1, MaxStart - 1, TRUE, FALSE)
        byId    == StatLog(SUMMARY, MaxStart, TRUE, FALSE)
        byFlag  == StatLog(1, MaxStart, TRUE, TRUE)
        extras  == {<<>>, <<old>>, <<byId>>, <<byFlag>>, <<byId, old, byFlag>>}
    IN  UNION {{Repeat(StatLog(1, MaxStart, TRUE, FALSE), done)
                   \o Repeat(StatLog(1, MaxStart, FALSE, FALSE), missed)
                   \o extra :
                missed \in 0 .. MaxStatLogs - done, extra \in extras} :
               done \in 0 .. MaxStatLogs}

\* the start dates the range buttons can produce, StatsView.tsx:19-38
RangeStarts == {<<>>} \cup {<<start>> : start \in 0 .. MaxStart}

\* first render of StatsView with a log list: range ALL_TIME
InitStats ==
    /\ logs \in StatInputs
    /\ startDate = <<>>
    /\ stats = Stats(logs, <<>>)
    /\ activities = <<>>
    /\ settings = InitialSettings
    /\ currentRock = Null
    /\ isSummaryPending = FALSE
    /\ lastActivityId = NoId
    /\ hasSeenOnboarding = FALSE
    /\ store = EmptyStore
    /\ now = MaxStart
    /\ running = TRUE
    /\ pending = FALSE
    /\ nextId = 0
    /\ event = "render"
    /\ answered = 0
    /\ rolled = NoDate
    /\ faults = FALSE
    /\ crashed = FALSE
    /\ prompts = 0
    /\ corrupt = {}
    /\ logRoom = MaxLogs
    /\ summaryShown = FALSE

\* a range button: setRange and the re-render, StatsView.tsx:13-51 and 68
setRange(start) ==
    /\ startDate' = start
    /\ stats' = Stats(logs, start)
    /\ event' = "setRange"
    /\ UNCHANGED <<mem, store, now, running, pending, nextId, answered, rolled,
                   faults, crashed, prompts, corrupt, logRoom, summaryShown>>

NextStats == \E start \in RangeStarts : setRange(start)

SpecStats == InitStats /\ [][NextStats]_vars

\* ===================================================================
\* Properties
\* ===================================================================
Idle == currentRock = Null /\ ~isSummaryPending

Ids(pool) == {pool[i].id : i \in 1 .. Len(pool)}

\* C1: in every reachable state the current rock is non-null and the
\* summary is pending are never both the case.
C1_NeverBoth == ~(currentRock # Null /\ isSummaryPending)

\* the summary was raised by a trigger after a rock had been answered
C1_Witness ==
    /\ running
    /\ event = "triggerNotification"
    /\ isSummaryPending
    /\ currentRock = Null
    /\ Len(logs) > 0

\* C2: within one day and without a rollover, once notificationsToday
\* prompts have been answered, the next trigger from Idle raises the
\* summary and selects no rock.
C2_QuotaThenSummary ==
    [][(/\ event' = "triggerNotification"
        /\ Idle
        /\ answered >= settings.notificationsToday)
       => (isSummaryPending' /\ currentRock' = Null)]_vars

\* a quota of at least one was used up and the trigger raised the summary
C2_Witness ==
    /\ running
    /\ event = "triggerNotification"
    /\ isSummaryPending
    /\ settings.notificationsToday >= 1
    /\ answered >= settings.notificationsToday

\* C3: a response while a rock is shown appends exactly one log entry with
\* the rock's id and text and the given completed flag, sets lastActivityId
\* to the rock's id and leaves the machine Idle; activities and settings
\* are unchanged.
C3_RespondLogs ==
    [][\A completed \in BOOLEAN :
          (handleRockResponse(completed) /\ currentRock # Null)
          => (/\ Len(logs') = Len(logs) + 1
              /\ SubSeq(logs', 1, Len(logs)) = logs
              /\ logs'[Len(logs')].activityId = currentRock.id
              /\ logs'[Len(logs')].activityText = currentRock.text
              /\ logs'[Len(logs')].completed = completed
              /\ lastActivityId' = currentRock.id
              /\ currentRock' = Null
              /\ isSummaryPending' = FALSE
              /\ UNCHANGED <<activities, settings>>)]_vars

\* a rock was answered with "no"
C3_Witness ==
    /\ running
    /\ event = "handleRockResponse"
    /\ Len(logs) > 0
    /\ ~logs[Len(logs)].completed
    /\ lastActivityId = logs[Len(logs)].activityId
    /\ Idle

\* C4: a response while no rock is shown (Idle or summary pending) changes
\* nothing, in memory or in the store.
C4_RespondNoop ==
    [][(event' = "handleRockResponse" /\ currentRock = Null)
       => UNCHANGED <<mem, store>>]_vars

\* a response arrived while the summary was pending
C4_Witness ==
    /\ running
    /\ event = "handleRockResponse"
    /\ isSummaryPending

\* C5: when the rollover check at mount or on becoming visible finds a
\* stored lastGeneratedDate other than today, the resulting state has
\* lastGeneratedDate = today, no current rock and no pending summary.
C5_RolloverResets ==
    [][(\/ /\ event' = "Mount"
           /\ loadInitialData(store, Today).settings.lastGeneratedDate # Today
        \/ /\ event' = "handleVisibilityChange"
           /\ store.SETTINGS # <<>>
           /\ store.SETTINGS[1].lastGeneratedDate # Today)
       => (/\ settings'.lastGeneratedDate = Today
           /\ currentRock' = Null
           /\ ~isSummaryPending')]_vars

\* a rollover on becoming visible dropped the rock saved the day before
C5_Witness ==
    /\ running
    /\ event = "handleVisibilityChange"
    /\ rolled = Today
    /\ store.STATE_CURRENT # <<>>
    /\ store.STATE_CURRENT[1] # Null
    /\ currentRock = Null
    /\ settings.lastGeneratedDate = Today

\* C6: a trigger or a response handled while the stored lastGeneratedDate
\* differs from the current day performs the rollover first.
C6_RolloverFirst ==
    [][(/\ event' \in {"triggerNotification", "handleRockResponse"}
        /\ store.SETTINGS # <<>>
        /\ store.SETTINGS[1].lastGeneratedDate # Today)
       => settings'.lastGeneratedDate = Today]_vars

\* C7: after a rollover to a day, every further rollover check on that day
\* leaves settings and prompt state unchanged, and no settings edit changes
\* notificationsToday or lastGeneratedDate.
C7_OncePerDay ==
    [][/\ (/\ event' = "handleVisibilityChange"
           /\ rolled = Today)
          => UNCHANGED <<settings, currentRock, isSummaryPending>>
       /\ (/\ event' = "Mount"
           /\ rolled = Today)
          => /\ settings' = loadInitialData(store, Today).settings
             /\ currentRock' = loadInitialData(store, Today).currentRock
             /\ isSummaryPending' = loadInitialData(store, Today).isSummaryPending
       /\ (event' \in {"onChangeMin", "onChangeMax"})
          => /\ settings'.notificationsToday = settings.notificationsToday
             /\ settings'.lastGeneratedDate = settings.lastGeneratedDate]_vars

\* the bounds of the settings a rollover check reads
ReadBounds(s) == <<s.minNotifications, s.maxNotifications>>

\* the three parts of C8 that do not depend on how an input is read
C8_Frame ==
    /\ (/\ event' = "Mount"
        /\ loadInitialData(store, Today).settings.lastGeneratedDate # Today)
       => ReadBounds(settings') = ReadBounds(loadInitialData(store, Today).settings)
    /\ (/\ event' = "handleVisibilityChange"
        /\ store.SETTINGS # <<>>
        /\ store.SETTINGS[1].lastGeneratedDate # Today)
       => ReadBounds(settings') = ReadBounds(store.SETTINGS[1])

C9_Positive ==
    /\ settings.minNotifications >= 1
    /\ settings.maxNotifications >= 1
    /\ settings.notificationsToday >= 1

\* C10: a rock selected by a trigger is a member of the current pool; with
\* more than one activity in the pool its id differs from lastActivityId;
\* with exactly one activity that activity is selected.
C10_Selection ==
    [][(/\ event' = "triggerNotification"
        /\ currentRock = Null
        /\ currentRock' # Null)
       => (/\ \E i \in 1 .. Len(activities) : activities[i] = currentRock'
           /\ Len(activities) > 1 => currentRock'.id # lastActivityId
           /\ Len(activities) = 1 => currentRock' = activities[1])]_vars

\* a rock was selected from a pool of two that holds the rock shown last
C10_Witness ==
    /\ running
    /\ event = "triggerNotification"
    /\ currentRock # Null
    /\ Len(activities) > 1
    /\ lastActivityId \in Ids(activities)

\* C11: removing the activity that is being shown takes it out of the pool
\* and leaves the current rock as it is; a following response appends a log
\* entry with the removed activity's id and text and returns to Idle.
C11_DeleteWhilePrompting ==
    [][/\ (currentRock # Null /\ removeActivity(currentRock.id))
          => (/\ currentRock' = currentRock
              /\ currentRock.id \notin Ids(activities'))
       /\ \A completed \in BOOLEAN :
             (/\ handleRockResponse(completed)
              /\ currentRock # Null
              /\ currentRock.id \notin Ids(activities))
             => (/\ Len(logs') = Len(logs) + 1
                 /\ logs'[Len(logs')].activityId = currentRock.id
                 /\ logs'[Len(logs')].activityText = currentRock.text
                 /\ logs'[Len(logs')].completed = completed
                 /\ currentRock' = Null
                 /\ ~isSummaryPending')]_vars

\* the activity being shown was removed and is still the current rock
C11_Witness ==
    /\ running
    /\ event = "removeActivity"
    /\ currentRock # Null
    /\ currentRock.id \notin Ids(activities)

IsPrefix(s, t) == Len(s) <= Len(t) /\ SubSeq(t, 1, Len(s)) = s

\* C15: the log list only grows: the stored list is only ever replaced by
\* an extension of itself, and so is the list in memory while the page is
\* open.
C15_AppendOnly ==
    [][/\ IsPrefix(GetOr(store.LOGS, <<>>), GetOr(store'.LOGS, <<>>))
       /\ (running /\ running') => IsPrefix(logs, logs')]_vars

\* C17: a start on an empty store gives minNotifications 3,
\* maxNotifications 8, notificationsToday 5, lastGeneratedDate today, empty
\* lists, no rock, no last id, no summary, onboarding not seen, and performs
\* no rollover.
C17_EmptyStoreDefaults ==
    [][(event' = "Mount" /\ store = EmptyStore)
       => (/\ settings' = [minNotifications |-> 3, maxNotifications |-> 8,
                           notificationsToday |-> 5,
                           lastGeneratedDate |-> Today]
           /\ activities' = <<>>
           /\ logs' = <<>>
           /\ currentRock' = Null
           /\ lastActivityId' = NoId
           /\ ~isSummaryPending'
           /\ ~hasSeenOnboarding'
           /\ rolled' = rolled)]_vars

\* the first start, on day 1, before anything else happened
C17_Witness ==
    /\ running
    /\ event = "Mount"
    /\ Today = 1
    /\ rolled = NoDate
    /\ nextId = 0
    /\ settings = [minNotifications |-> 3, maxNotifications |-> 8,
                   notificationsToday |-> 5, lastGeneratedDate |-> 1]
    /\ store.SETTINGS = <<InitialSettings>>

\* C18: a trigger changes nothing while a rock is shown, while the summary
\* is pending, and when the machine is Idle below the quota with an empty
\* pool.
C18_TriggerNoop ==
    [][(/\ event' = "triggerNotification"
        /\ \/ currentRock # Null
           \/ isSummaryPending
           \/ /\ Len(todaysLogs(logs, Today)) < settings.notificationsToday
              /\ Len(activities) = 0)
       => UNCHANGED <<mem, store>>]_vars

\* a trigger found the pool empty below the quota and stayed Idle
C18_Witness ==
    /\ running
    /\ event = "triggerNotification"
    /\ Idle
    /\ Len(activities) = 0
    /\ Len(todaysLogs(logs, Today)) < settings.notificationsToday

\* Log records carry no isSummary field: no code writes one.
IsSummaryEntry(e) == e.activityId = SUMMARY

\* C19: dismissing the pending summary leads to Idle and adds no log entry;
\* no log entry, in memory or stored, is ever a summary entry.
C19_DismissNoLog ==
    /\ [](/\ \A i \in 1 .. Len(logs) : ~IsSummaryEntry(logs[i])
          /\ \A i \in 1 .. Len(GetOr(store.LOGS, <<>>)) :
                ~IsSummaryEntry(GetOr(store.LOGS, <<>>)[i]))
    /\ [][(event' = "handleSummaryDismiss" /\ isSummaryPending)
          => (/\ ~isSummaryPending'
              /\ currentRock' = Null
              /\ logs' = logs)]_vars

\* the summary of a used-up quota was dismissed
C19_Witness ==
    /\ running
    /\ event = "handleSummaryDismiss"
    /\ Idle
    /\ Len(logs) > 0
    /\ store.STATE_SUMMARY = <<FALSE>>

\* C20: a rollover leaves lastActivityId, the pool, the log list, both
\* bounds and the onboarding flag as they were (at mount: as stored).
C20_RolloverFrame ==
    [][/\ (/\ event' = "handleVisibilityChange"
           /\ store.SETTINGS # <<>>
           /\ store.SETTINGS[1].lastGeneratedDate # Today)
          => (/\ UNCHANGED <<lastActivityId, activities, logs, hasSeenOnboarding>>
              /\ ReadBounds(settings') = ReadBounds(settings))
       /\ (/\ event' = "Mount"
           /\ loadInitialData(store, Today).settings.lastGeneratedDate # Today)
          => (LET data == loadInitialData(store, Today) IN
              /\ lastActivityId' = data.lastActivityId
              /\ activities' = data.activities
              /\ logs' = data.logs
              /\ hasSeenOnboarding' = data.hasSeenOnboarding
              /\ ReadBounds(settings') = ReadBounds(data.settings))]_vars

\* ------------------------------------------------------------------
\* C12: persisting a transition is atomic over the seven keys: when the
\* process dies inside the save of a transition, the store holds the complete
\* state before the transition or the complete state after it, never a mix.
C12_AtomicSave ==
    [][(crashed' /\ event' # "Mount")
          => \/ store' = store
             \/ store' = saveData(activities', logs', settings', currentRock',
                                  lastActivityId', isSummaryPending',
                                  hasSeenOnboarding')]_vars

\* ------------------------------------------------------------------
\* the component state as loadInitialData's record
InMemory ==
    [activities        |-> activities,
     logs              |-> logs,
     settings          |-> settings,
     currentRock       |-> currentRock,
     lastActivityId    |-> lastActivityId,
     isSummaryPending  |-> isSummaryPending,
     hasSeenOnboarding |-> hasSeenOnboarding]

\* C13: persist/restore is exact: when the process stops between two events
\* with the quota of the current day in memory, what a restart on the same
\* day loads from the store is the in-memory state at the moment of the stop.
C13_RestoreExact ==
    [][(event' = "Kill" /\ ~crashed /\ ~NeedsRollover(settings, Today))
          => loadInitialData(store', Today) = InMemory]_vars

\* ------------------------------------------------------------------
\* C14: no prompt is duplicated across a restart: a rock that is the
\* current, answerable prompt has no log entry yet, i.e. fewer log entries
\* exist than rocks were selected, whatever crashes and restarts came before.
C14_NoDuplicatePrompt ==
    (running /\ ~crashed /\ currentRock # Null) => Len(logs) < prompts

\* ------------------------------------------------------------------
\* the store as loadInitialData should read it when `keys` are damaged: a
\* damaged key counts as absent, so that it takes its default
WithDefaults(st, keys) ==
    [key \in DOMAIN st |-> IF key \in keys THEN <<>> ELSE st[key]]

\* C16: with one damaged key at start the initialization completes: the
\* component runs, the damaged key takes its default and the other keys are
\* restored from their stored values.
C16_CorruptKeyRecovers ==
    [][(event' \in {"Mount", "MountThrows"} /\ corrupt # {})
          => LET data == loadInitialData(WithDefaults(store, corrupt), Today) IN
             /\ running'
             /\ activities' = data.activities
             /\ logs' = data.logs
             /\ lastActivityId' = data.lastActivityId
             /\ hasSeenOnboarding' = data.hasSeenOnboarding]_vars

\* ------------------------------------------------------------------
\* the quotas a rollover from the settings `s` can produce
Quotas(s) ==
    {Regenerated(s, randomAdd, Today).notificationsToday :
        randomAdd \in RandomAdd(s.maxNotifications - s.minNotifications)}

\* C21: a rollover from settings with minNotifications <= maxNotifications
\* produces a quota within these bounds, every integer between them is a
\* possible quota, and with equal bounds the quota is that value.
C21_QuotaRange ==
    [][/\ (/\ event' = "handleVisibilityChange"
           /\ store.SETTINGS # <<>>
           /\ NeedsRollover(store.SETTINGS[1], Today)
           /\ store.SETTINGS[1].minNotifications
                 <= store.SETTINGS[1].maxNotifications)
          => LET s == store.SETTINGS[1] IN
             /\ settings'.notificationsToday \in Quotas(s)
             /\ Quotas(s) = s.minNotifications .. s.maxNotifications
       /\ (/\ event' = "Mount"
           /\ NeedsRollover(loadInitialData(store, Today).settings, Today)
           /\ loadInitialData(store, Today).settings.minNotifications
                 <= loadInitialData(store, Today).settings.maxNotifications)
          => LET s == loadInitialData(store, Today).settings IN
             /\ settings'.notificationsToday \in Quotas(s)
             /\ Quotas(s) = s.minNotifications .. s.maxNotifications]_vars

\* a rollover on return to the foreground from stored settings whose bounds
\* are equal has produced that value
C21_Witness ==
    /\ event = "handleVisibilityChange"
    /\ store.SETTINGS # <<>>
    /\ NeedsRollover(store.SETTINGS[1], Today)
    /\ store.SETTINGS[1].minNotifications = store.SETTINGS[1].maxNotifications
    /\ settings.lastGeneratedDate = Today
    /\ settings.notificationsToday = store.SETTINGS[1].minNotifications

\* ------------------------------------------------------------------
\* C22: stats counts as total the entries that are no summary (neither by
\* flag nor by id) and, with a start date, are strictly later than it;
\* completed is the number of those with completed true; percentage is 0 for
\* total 0 and otherwise 100 * completed / total rounded half up.
C22_Stats ==
    LET counted == SelectSeq(logs, LAMBDA e :
                      /\ ~e.isSummary
                      /\ e.activityId # SUMMARY
                      /\ (startDate = <<>> \/ e.timestamp > startDate[1]))
        done    == SelectSeq(counted, LAMBDA e : e.completed)
    IN  /\ stats.total = Len(counted)
        /\ stats.completed = Len(done)
        /\ stats.percentage = PercentageExact(Len(done), Len(counted))

\* ------------------------------------------------------------------
\* C23: in every state the answers logged on the current day (summary
\* entries aside) are at most notificationsToday; stated for a positive
\* Minimum and a positive quota.
C23_QuotaBoundsAnswers ==
    (running /\ settings.minNotifications >= 1
             /\ settings.notificationsToday >= 1)
        => Len(todaysLogs(logs, Today)) <= settings.notificationsToday

\* ------------------------------------------------------------------
\* C24: minNotifications <= notificationsToday <= maxNotifications in every
\* state, also after the Minimum or the Maximum was changed on a day whose
\* quota is already generated.
C24_QuotaWithinBounds ==
    running => /\ settings.minNotifications <= settings.notificationsToday
               /\ settings.notificationsToday <= settings.maxNotifications

\* ------------------------------------------------------------------
\* C25: once a summary was raised, no trigger leads to a prompt before the
\* next rollover: every trigger from Idle in between raises the summary
\* again.
C25_SummaryUntilRollover ==
    [][(event' = "triggerNotification" /\ Idle /\ summaryShown)
          => (isSummaryPending' /\ currentRock' = Null)]_vars

====
